---- MODULE Spec2Model ----
(***************************************************************************)
(* Rider-name normalisation of the Tour de France scrapers.                *)
(*                                                                         *)
(*   layout B : TdFScraper._format_name             (scrape_stage_results) *)
(*   layout A : FixedSeleniumScraper.reformat_rider_name   (import-stages) *)
(*                                                                         *)
(* A Python str is a sequence of characters; a character is a one-symbol   *)
(* string.  "e^" and "E^" stand for the precomposed accented letters       *)
(* e-acute and E-acute, "o/" and "O/" for o-slash and O-slash (letters     *)
(* without a canonical decomposition).  None is a value that is not a      *)
(* str; Raised is the outcome of a call that ends in an exception.         *)
(*                                                                         *)
(* Each part of the scrapers has its own specification; the variables of   *)
(* the other parts stay idle in it.                                        *)
(***************************************************************************)
EXTENDS Naturals, Integers, Sequences, FiniteSets, TLC

VARIABLES
  pc,          \* the position of the caller
  name,        \* the raw rider name handed to a normaliser
  res,         \* what the first call returned
  res2,        \* what the second call returned
  stage,       \* the stage number asked for
  row,         \* the table row the extractor loop is at
  data,        \* the data dict of FixedSeleniumScraper.scrape_stage
  stage_num,   \* the loop variable of find_latest_stage
  fetched,     \* what _get_stage_data gave for stage_num
  examined,    \* history: the stage numbers fetched so far
  best,        \* history: the largest completed stage among them, 0 if none
  latest,      \* the value find_latest_stage returned
  results,     \* the 'results' list of the stage data
  ret,         \* what _get_dnf_dns / _format_top_20 returned
  fn,          \* the submit function called: "stage" or "startlist"
  scraped,     \* what the scraper gave to the submit function
  posts,       \* history: the number of POSTs issued by the call
  response,    \* what requests.post gave
  outcome,     \* how the call ended: "None", "result" or "raised"
  ran,         \* history: the extractors scrape_stage has run, in order
  returned,    \* what scrape_stage returned: "data" or "None"
  seen,        \* history: the rows of the results table read so far
  top_20_finishers  \* data['top_20_finishers'] in _extract_results

nameVars == <<name, res, res2>>

rowVars == <<stage, row, data>>

searchVars == <<stage_num, fetched, examined, best, latest>>

resultVars == <<results, ret>>

submitVars == <<fn, scraped, posts, response, outcome>>

scrapeVars == <<ran, returned>>

tableVars == <<seen, top_20_finishers>>

vars ==
  <<pc, nameVars, rowVars, searchVars, resultVars, submitVars, scrapeVars,
    tableVars>>

None == <<"None">>

Raised == <<"Raised">>

(***************************************************************************)
(* Characters and the str methods used by the two normalisers.             *)
(***************************************************************************)
LowerAlpha ==
  <<"a","b","c","d","e","f","g","h","i","j","k","l","m",
    "n","o","p","q","r","s","t","u","v","w","x","y","z">>

UpperAlpha ==
  <<"A","B","C","D","E","F","G","H","I","J","K","L","M",
    "N","O","P","Q","R","S","T","U","V","W","X","Y","Z">>

AsciiLower == {LowerAlpha[i] : i \in 1..26}

AsciiUpper == {UpperAlpha[i] : i \in 1..26}

AccentLower == {"e^", "o/"}

AccentUpper == {"E^", "O/"}

Uncased == {"'", "-", "1"}

Space == " "

Ascii == AsciiLower \cup AsciiUpper \cup Uncased \cup {Space}

Char == Ascii \cup AccentLower \cup AccentUpper

IsLowerC(c) == c \in AsciiLower \cup AccentLower

IsUpperC(c) == c \in AsciiUpper \cup AccentUpper

IsCased(c) == IsLowerC(c) \/ IsUpperC(c)

\* str.lower() on one character
LowerMap ==
  [c \in Char |->
     IF c \in AsciiUpper THEN LowerAlpha[CHOOSE i \in 1..26 : UpperAlpha[i] = c]
     ELSE IF c = "E^" THEN "e^"
     ELSE IF c = "O/" THEN "o/"
     ELSE c]

\* str.upper() on one character
UpperMap ==
  [c \in Char |->
     IF c \in AsciiLower THEN UpperAlpha[CHOOSE i \in 1..26 : LowerAlpha[i] = c]
     ELSE IF c = "e^" THEN "E^"
     ELSE IF c = "o/" THEN "O/"
     ELSE c]

\* unicodedata.normalize('NFKD', c).encode('ascii', 'ignore') on one character:
\* the base letter of a decomposable letter, nothing for any other non-ASCII
NfkdAsciiMap ==
  [c \in Char |->
     IF c \in Ascii THEN <<c>>
     ELSE IF c = "e^" THEN <<"e">>
     ELSE IF c = "E^" THEN <<"E">>
     ELSE <<>>]

PyLower(s) == [i \in 1..Len(s) |-> LowerMap[s[i]]]

\* str.title(): a cased character is upper-cased unless the character before
\* it is cased, in which case it is lower-cased
PyTitle(s) ==
  [i \in 1..Len(s) |->
     IF i > 1 /\ IsCased(s[i-1]) THEN LowerMap[s[i]] ELSE UpperMap[s[i]]]

\* str.isupper(): at least one cased character and no lower-case one
PyIsUpper(s) ==
  /\ \E i \in 1..Len(s) : IsCased(s[i])
  /\ \A i \in 1..Len(s) : ~IsLowerC(s[i])

RECURSIVE NfkdAscii(_)
NfkdAscii(s) ==
  IF s = <<>> THEN <<>> ELSE NfkdAsciiMap[Head(s)] \o NfkdAscii(Tail(s))

RECURSIVE LStrip(_)
LStrip(s) == IF s # <<>> /\ Head(s) = Space THEN LStrip(Tail(s)) ELSE s

RECURSIVE RStrip(_)
RStrip(s) ==
  IF s # <<>> /\ s[Len(s)] = Space THEN RStrip(SubSeq(s, 1, Len(s) - 1)) ELSE s

\* str.strip()
PyStrip(s) == RStrip(LStrip(s))

RECURSIVE SplitFrom(_, _, _, _)
SplitFrom(s, i, cur, acc) ==
  IF i > Len(s)
  THEN IF cur = <<>> THEN acc ELSE Append(acc, cur)
  ELSE IF s[i] = Space
       THEN SplitFrom(s, i + 1, <<>>, IF cur = <<>> THEN acc ELSE Append(acc, cur))
       ELSE SplitFrom(s, i + 1, Append(cur, s[i]), acc)

\* str.split() with no argument: the maximal runs of non-whitespace
PySplit(s) == SplitFrom(s, 1, <<>>, <<>>)

RECURSIVE PyJoin(_)
\* ' '.join(parts)
PyJoin(parts) ==
  IF parts = <<>> THEN <<>>
  ELSE IF Len(parts) = 1 THEN parts[1]
  ELSE parts[1] \o <<Space>> \o PyJoin(Tail(parts))

\* Python truthiness of an Optional[str]
Truthy(x) == x # None /\ x # <<>>

(***************************************************************************)
(* Layout B: TdFScraper._format_name                                       *)
(***************************************************************************)
\* particles = {'van','de','der','den','le','la','del','da','di','dos','von','zu'}
particles ==
  { <<"v","a","n">>, <<"d","e">>, <<"d","e","r">>, <<"d","e","n">>,
    <<"l","e">>, <<"l","a">>, <<"d","e","l">>, <<"d","a">>, <<"d","i">>,
    <<"d","o","s">>, <<"v","o","n">>, <<"z","u">> }

\* faulty variant: the first particle instead of the last
LastParticleIdx_First(parts) ==
  LET hits == {i \in 0..(Len(parts) - 1) : PyLower(parts[i + 1]) \in particles}
  IN  IF hits = {} THEN -1 ELSE CHOOSE i \in hits : \A j \in hits : i <= j

\* faulty variant: membership tested on the part as written, without .lower()
LastParticleIdx_CaseSensitive(parts) ==
  LET hits == {i \in 0..(Len(parts) - 1) : parts[i + 1] \in particles}
  IN  IF hits = {} THEN -1 ELSE CHOOSE i \in hits : \A j \in hits : j <= i

\* the loop over enumerate(parts): the 0-based index of the last part whose
\* lower-cased form is a particle, -1 when there is none
LastParticleIdx(parts) ==
  LET hits == {i \in 0..(Len(parts) - 1) : PyLower(parts[i + 1]) \in particles}
  IN  IF hits = {} THEN -1 ELSE CHOOSE i \in hits : \A j \in hits : j <= i

Min(a, b) == IF a <= b THEN a ELSE b

\* faulty variant: without a particle the last word alone is taken as the first name
SurnameEndIdx_LastWordFirstName(parts) ==
  LET last_particle_idx == LastParticleIdx(parts)
  IN  IF last_particle_idx >= 0
      THEN Min(last_particle_idx + 2, Len(parts))
      ELSE Len(parts) - 1

\* the number of leading parts that form the surname
SurnameEndIdx(parts) ==
  LET last_particle_idx == LastParticleIdx(parts)
  IN  IF last_particle_idx >= 0
      THEN Min(last_particle_idx + 2, Len(parts))
      ELSE 1

\* faulty variant: every part is title-cased
CaseRepair_AlwaysTitle(p) == PyTitle(p)

\* p.title() if p.isupper() else p
CaseRepair(p) == IF PyIsUpper(p) THEN PyTitle(p) ELSE p

\* faulty variant: the "if not name" guard is missing, None.strip() raises
FormatName_NoGuard(n) ==
  IF n = None THEN Raised
  ELSE LET stripped == PyStrip(n)
           parts == PySplit(stripped)
       IN  IF Len(parts) < 2 THEN stripped
           ELSE LET surname_end_idx == SurnameEndIdx(parts)
                    surname_parts == SubSeq(parts, 1, surname_end_idx)
                    first_name_parts == SubSeq(parts, surname_end_idx + 1, Len(parts))
                IN  IF first_name_parts = <<>> THEN stripped
                    ELSE PyJoin([i \in 1..Len(first_name_parts) |-> CaseRepair(first_name_parts[i])])
                         \o <<Space>> \o
                         PyJoin([i \in 1..Len(surname_parts) |-> CaseRepair(surname_parts[i])])

\* faulty variant: a name of fewer than two parts is title-cased, as layout A does
FormatName_TitleMononym(n) ==
  IF ~Truthy(n) THEN None
  ELSE LET stripped == PyStrip(n)
           parts == PySplit(stripped)
       IN  IF Len(parts) < 2 THEN PyTitle(stripped)
           ELSE LET surname_end_idx == SurnameEndIdx(parts)
                    surname_parts == SubSeq(parts, 1, surname_end_idx)
                    first_name_parts == SubSeq(parts, surname_end_idx + 1, Len(parts))
                IN  IF first_name_parts = <<>> THEN stripped
                    ELSE PyJoin([i \in 1..Len(first_name_parts) |-> CaseRepair(first_name_parts[i])])
                         \o <<Space>> \o
                         PyJoin([i \in 1..Len(surname_parts) |-> CaseRepair(surname_parts[i])])

\* faulty variant: a name that cannot be split is returned casing-repaired
FormatName_FallbackRepaired(n) ==
  IF ~Truthy(n) THEN None
  ELSE LET stripped == PyStrip(n)
           parts == PySplit(stripped)
       IN  IF Len(parts) < 2 THEN stripped
           ELSE LET surname_end_idx == SurnameEndIdx(parts)
                    surname_parts == SubSeq(parts, 1, surname_end_idx)
                    first_name_parts == SubSeq(parts, surname_end_idx + 1, Len(parts))
                IN  IF first_name_parts = <<>>
                    THEN PyJoin([i \in 1..Len(parts) |-> CaseRepair(parts[i])])
                    ELSE PyJoin([i \in 1..Len(first_name_parts) |-> CaseRepair(first_name_parts[i])])
                         \o <<Space>> \o
                         PyJoin([i \in 1..Len(surname_parts) |-> CaseRepair(surname_parts[i])])

FormatName(n) ==
  IF ~Truthy(n) THEN None
  ELSE LET stripped == PyStrip(n)
           parts == PySplit(stripped)
       IN  IF Len(parts) < 2 THEN stripped
           ELSE LET surname_end_idx == SurnameEndIdx(parts)
                    surname_parts == SubSeq(parts, 1, surname_end_idx)
                    first_name_parts == SubSeq(parts, surname_end_idx + 1, Len(parts))
                IN  IF first_name_parts = <<>> THEN stripped
                    ELSE PyJoin([i \in 1..Len(first_name_parts) |-> CaseRepair(first_name_parts[i])])
                         \o <<Space>> \o
                         PyJoin([i \in 1..Len(surname_parts) |-> CaseRepair(surname_parts[i])])

(***************************************************************************)
(* Layout A: FixedSeleniumScraper.reformat_rider_name                      *)
(***************************************************************************)
\* surname_prefixes = {'van','der','de','den','le','dos','da','di','del','la'}
surname_prefixes ==
  { <<"v","a","n">>, <<"d","e","r">>, <<"d","e">>, <<"d","e","n">>,
    <<"l","e">>, <<"d","o","s">>, <<"d","a">>, <<"d","i">>, <<"d","e","l">>,
    <<"l","a">> }

\* faulty variant: a part that is not a prefix is left as written
proper_case_NoTitle(part) ==
  LET lower == PyLower(part)
  IN  IF lower \in surname_prefixes THEN lower ELSE part

proper_case(part) ==
  LET lower == PyLower(part)
  IN  IF lower \in surname_prefixes THEN lower ELSE PyTitle(part)

\* faulty variant: the parts are joined in the order they came in
ReformatRiderName_KeepOrder(n) ==
  IF ~Truthy(n) THEN <<>>
  ELSE LET normalized == NfkdAscii(n)
           parts == PySplit(PyStrip(normalized))
       IN  IF Len(parts) < 2 THEN PyTitle(n)
           ELSE PyJoin([i \in 1..Len(parts) |-> proper_case(parts[i])])

\* faulty variant: the "len(parts) < 2" return is missing, parts[-1] raises
\* IndexError when there is no part
ReformatRiderName_NoShortGuard(n) ==
  IF ~Truthy(n) THEN <<>>
  ELSE LET normalized == NfkdAscii(n)
           parts == PySplit(PyStrip(normalized))
       IN  IF parts = <<>> THEN Raised
           ELSE LET first_name == proper_case(parts[Len(parts)])
                    surname == PyJoin([i \in 1..(Len(parts) - 1) |-> proper_case(parts[i])])
                IN  first_name \o <<Space>> \o surname

ReformatRiderName(n) ==
  IF ~Truthy(n) THEN <<>>
  ELSE LET normalized == NfkdAscii(n)
           parts == PySplit(PyStrip(normalized))
       IN  IF Len(parts) < 2 THEN PyTitle(n)
           ELSE LET first_name == proper_case(parts[Len(parts)])
                    surname == PyJoin([i \in 1..(Len(parts) - 1) |-> proper_case(parts[i])])
                IN  first_name \o <<Space>> \o surname

(***************************************************************************)
(* Call sites that may have no rider to format.                            *)
(***************************************************************************)
\* TdFScraper._get_jersey_leader
GetJerseyLeader(classification) ==
  IF classification # <<>> THEN classification[1].rider_name ELSE None

\* "yellow": self._format_name(self._get_jersey_leader(stage_data.get('gc', [])))
JerseyField(classification) == FormatName(GetJerseyLeader(classification))

\* "combativity": self._format_name(combativity) if combativity else None
CombativityField(combativity) ==
  IF Truthy(combativity) THEN FormatName(combativity) ELSE None

\* data['combativity'] = '' until a rider link is found, then
\* self.reformat_rider_name(rider_link.text.strip())
ExtractedField(link_text) ==
  IF link_text = None THEN <<>> ELSE ReformatRiderName(PyStrip(link_text))

(***************************************************************************)
(* Inputs.  A raw name is None, the empty string, one of the examples of   *)
(* the _format_name docstring, up to MaxTokens words of Vocab separated by *)
(* one blank, or up to MaxPaddedTokens words of Vocab laid out with up to  *)
(* MaxPad extra blanks in front, behind or between the words.              *)
(***************************************************************************)
MaxTokens == 3

MaxPad == 1

MaxPaddedTokens == 2

\* particles in three casings, a particle of layout B only, title-cased,
\* all-caps and mixed-case words, accented words, a word with punctuation
Vocab ==
  { <<"v","a","n">>,
    <<"V","A","N">>,
    <<"V","a","n">>,
    <<"v","o","n">>,
    <<"B","e","r","g">>,
    <<"B","e","n">>,
    <<"H","E","A","L","Y">>,
    <<"M","c","E","w","e","n">>,
    <<"P","i","e^","t","r","i">>,
    <<"O/">>,
    <<"O","'","C">>,
    <<"d","e^">> }

YatesSimon ==
  <<"Y","a","t","e","s"," ","S","i","m","o","n">>

SimonYates ==
  <<"S","i","m","o","n"," ","Y","a","t","e","s">>

VanDenBergMarijn ==
  <<"v","a","n"," ","d","e","n"," ","B","e","r","g"," ","M","a","r","i","j","n">>

MarijnVanDenBerg ==
  <<"M","a","r","i","j","n"," ","v","a","n"," ","d","e","n"," ","B","e","r","g">>

JohannessenTobiasHalland ==
  <<"J","o","h","a","n","n","e","s","s","e","n"," ","T","o","b","i","a","s"," ","H","a","l","l","a","n","d">>

TobiasHallandJohannessen ==
  <<"T","o","b","i","a","s"," ","H","a","l","l","a","n","d"," ","J","o","h","a","n","n","e","s","s","e","n">>

ZimmermannGeorg ==
  <<"Z","i","m","m","e","r","m","a","n","n"," ","G","e","o","r","g">>

HealyBenCaps ==
  <<"H","E","A","L","Y"," ","B","e","n">>

BenHealy ==
  <<"B","e","n"," ","H","e","a","l","y">>

\* the inputs of the examples of the _format_name docstring, and the
\* first-name-first form of the first of them
Examples ==
  {YatesSimon, VanDenBergMarijn, JohannessenTobiasHalland, ZimmermannGeorg,
   HealyBenCaps, SimonYates}

RECURSIVE Blanks(_)
Blanks(k) == IF k = 0 THEN <<>> ELSE <<Space>> \o Blanks(k - 1)

RECURSIVE JoinGap(_, _)
JoinGap(toks, gap) ==
  IF toks = <<>> THEN <<>>
  ELSE IF Len(toks) = 1 THEN toks[1]
  ELSE toks[1] \o Blanks(gap) \o JoinGap(Tail(toks), gap)

Render(toks, lead, gap, trail) == Blanks(lead) \o JoinGap(toks, gap) \o Blanks(trail)

TokenSeqs(k) == UNION {[1..j -> Vocab] : j \in 0..k}

\* one irregularity at a time: blanks in front, wider gaps, blanks behind
PaddedLayouts ==
  {<<k, 1, 0>> : k \in 1..MaxPad}
    \cup {<<0, 1 + k, 0>> : k \in 1..MaxPad}
    \cup {<<0, 1, k>> : k \in 1..MaxPad}

RawNames ==
  {None} \cup Examples
    \cup {Render(toks, 0, 1, 0) : toks \in TokenSeqs(MaxTokens)}
    \cup {Render(toks, l[1], l[2], l[3]) : toks \in TokenSeqs(MaxPaddedTokens), l \in PaddedLayouts}

Unset == <<"Unset">>

(***************************************************************************)
(* The stage rows of the Selenium scraper (import-stages.py).  The          *)
(* combativity page and the dropouts page are tables with one row per      *)
(* award or dropout; row.text starts with the stage label and the row may  *)
(* hold a rider link.  A Tour has LastStage stages.                        *)
(***************************************************************************)
LastStage == 21

MaxRows == 1

Digit(d) == <<"0", "1", "2", "3", "4", "5", "6", "7", "8", "9">>[d + 1]

\* str(n) inside an f-string, for 0 <= n <= 99.
PyStrInt(n) ==
  IF n < 10 THEN <<Digit(n)>> ELSE <<Digit(n \div 10), Digit(n % 10)>>

\* f"Stage {stage}"
StageLabel(n) == <<"S", "t", "a", "g", "e", " ">> \o PyStrInt(n)

\* s.startswith(p)
StartsWith(s, p) == Len(p) <= Len(s) /\ SubSeq(s, 1, Len(p)) = p

\* p in s
Contains(s, p) ==
  \E i \in 0..(Len(s) - Len(p)) : SubSeq(s, i + 1, i + Len(p)) = p

\* The row test of both extractors.
RowIsForStage(row_text, n) ==
  \/ Contains(row_text, StageLabel(n) \o <<" ">>)
  \/ Contains(row_text, StageLabel(n) \o <<"\t">>)
  \/ StartsWith(row_text, StageLabel(n))

RowSeparators == {<<" ">>, <<"\t">>, <<"\n">>}

DropoutMarks == {<<"D", "N", "F">>, <<"D", "N", "S">>}

\* The text of the row's rider link; None when the row has no such link.
RiderLinks == {None, HealyBenCaps}

RowText(m, sep, link, mark) ==
  StageLabel(m) \o sep \o (IF link = None THEN <<>> ELSE link \o sep) \o mark

TableRows ==
  { [at |-> 0, stage |-> m, text |-> RowText(m, sep, link, mark), link |-> link] :
      m \in 1..LastStage, sep \in RowSeparators,
      link \in RiderLinks, mark \in DropoutMarks }

NoRow == [at |-> 0, stage |-> 0, text |-> <<>>, link |-> None]

\* The fields of the data dict that the two extractors write.
NewData == [combativity |-> <<>>, dnf_riders |-> <<>>, dns_riders |-> <<>>]

(***************************************************************************)
(* find_latest_stage (scrape_stage_results.py).  What _get_stage_data      *)
(* gives for one stage: it raises, or it returns stage data whose results  *)
(* are empty or not and whose 'date' is missing, empty, not of the form    *)
(* %Y-%m-%d, or a date.  A date is its distance in days from today.  The   *)
(* stage number returned is an integer, None is NoStage.                   *)
(***************************************************************************)
MaxDays == 1

NoStage == 0

NoDate == [kind |-> "None", days |-> 0]

DateStrings ==
  {NoDate, [kind |-> "empty", days |-> 0], [kind |-> "text", days |-> 0]}
    \cup {[kind |-> "iso", days |-> d] : d \in (0 - MaxDays)..MaxDays}

StageFetches ==
  {[raised |-> TRUE, has_results |-> FALSE, date_str |-> NoDate]}
    \cup {[raised |-> FALSE, has_results |-> h, date_str |-> d] :
            h \in BOOLEAN, d \in DateStrings}

NoFetch == [raised |-> FALSE, has_results |-> FALSE, date_str |-> NoDate]

\* faulty variant: a stage with results is taken whatever its date.
StageOutcome_IgnoresDate(f) ==
  IF f.raised THEN "continue"
  ELSE IF ~f.has_results THEN "continue"
  ELSE IF f.date_str.kind \in {"None", "empty"} THEN "next"
  ELSE IF f.date_str.kind # "iso" THEN "continue"
  ELSE "return"

\* The body of the loop for one stage: "return" returns stage_num,
\* "continue" and "next" go on with the stage before.
StageOutcome(f) ==
  IF f.raised THEN "continue"
  ELSE IF ~f.has_results THEN "continue"
  ELSE IF f.date_str.kind \in {"None", "empty"} THEN "next"
  ELSE IF f.date_str.kind # "iso" THEN "continue"
  ELSE IF f.date_str.days <= 0 THEN "return"
  ELSE "next"

\* History: the stage fetched is a completed one.
Completed(f) ==
  ~f.raised /\ f.has_results /\ f.date_str.kind = "iso" /\ f.date_str.days <= 0

Max(a, b) == IF a >= b THEN a ELSE b

(***************************************************************************)
(* The results of a stage (scrape_stage_results.py).  A result is a dict:  *)
(* a function whose domain is the keys it has.  Dict builds one from a     *)
(* record, leaving out the keys marked Absent.  A key may be present with  *)
(* the value None.  An int is PyInt(k).                                    *)
(***************************************************************************)
Absent == <<"Absent">>

Dict(fields) ==
  [k \in {f \in DOMAIN fields : fields[f] # Absent} |-> fields[k]]

\* d.get(key, default)
DictGet(d, key, default) == IF key \in DOMAIN d THEN d[key] ELSE default

PyInt(k) == <<"int", k>>

\* a or b
PyOr(a, b) == IF Truthy(a) THEN a ELSE b

\* faulty variant: the second test is an if, and takes 'DNS' too.
DnfDnsStep_NoElif(acc, result) ==
  LET rider_name == DictGet(result, "rider_name", <<>>)
      status == DictGet(result, "status", <<>>)
      acc1 == IF status = <<"D", "N", "S">>
                THEN [acc EXCEPT !.dns = Append(@, rider_name)]
                ELSE acc
  IN  IF ~Truthy(rider_name) THEN acc
      ELSE IF status \in {<<"D", "N", "F">>, <<"O", "T", "L">>,
                           <<"D", "S", "Q">>, <<"D", "N", "S">>}
             THEN [acc1 EXCEPT !.dnf = Append(@, rider_name)]
      ELSE acc1

\* The body of the loop of _get_dnf_dns for one result.
DnfDnsStep(acc, result) ==
  LET rider_name == DictGet(result, "rider_name", <<>>)
      status == DictGet(result, "status", <<>>)
  IN  IF ~Truthy(rider_name) THEN acc
      ELSE IF status = <<"D", "N", "S">>
             THEN [acc EXCEPT !.dns = Append(@, rider_name)]
      ELSE IF status \in {<<"D", "N", "F">>, <<"O", "T", "L">>, <<"D", "S", "Q">>}
             THEN [acc EXCEPT !.dnf = Append(@, rider_name)]
      ELSE acc

RECURSIVE DnfDnsLoop(_, _, _)
DnfDnsLoop(all_results, i, acc) ==
  IF i > Len(all_results) THEN acc
  ELSE DnfDnsLoop(all_results, i + 1, DnfDnsStep(acc, all_results[i]))

GetDnfDns(all_results) ==
  DnfDnsLoop(all_results, 1, [dnf |-> <<>>, dns |-> <<>>])

\* [self._format_name(name) for name in names]
FormatAll(names) == [i \in 1..Len(names) |-> FormatName(names[i])]

MaxResults == 2

Statuses ==
  {<<"D", "F">>, <<"D", "N", "F">>, <<"D", "N", "S">>, <<"O", "T", "L">>,
   <<"D", "S", "Q">>}

DropoutNames == {None, <<>>, YatesSimon, HealyBenCaps}

DropoutResultDicts ==
  { Dict([rider_name |-> n, status |-> st]) :
      n \in DropoutNames \cup {Absent}, st \in Statuses \cup {Absent} }

\* The lists of up to max_len results.
DropoutResults(max_len) ==
  UNION {[1..n -> DropoutResultDicts] : n \in 0..max_len}

(***************************************************************************)
(* _format_top_20 keeps the first TopN results.  The lists it is given     *)
(* here have up to TopN + MaxExtra results: regular ones, with a name, a   *)
(* rank and a time, and one that is any of TopResultDicts.                 *)
(***************************************************************************)
TopN == 20

MaxExtra == 1

DefaultGap == <<"0", ":", "0", "0">>

\* results[:20], one entry for each result.
FormatTop20(all_results) ==
  LET head == SubSeq(all_results, 1, Min(TopN, Len(all_results)))
  IN  [i \in 1..Len(head) |->
         [rider_name |-> FormatName(DictGet(head[i], "rider_name", <<>>)),
          position |-> DictGet(head[i], "rank", PyInt(i)),
          time_gap |-> PyOr(PyOr(DictGet(head[i], "time", None),
                                 DictGet(head[i], "gap", None)),
                            DefaultGap)]]

StageTime == <<"4", ":", "0", "1", ":", "5", "9">>

StageGap == <<"+", "0", ":", "0", "5">>

TopResultDicts ==
  { Dict([rider_name |-> n, rank |-> rk, time |-> t, gap |-> g]) :
      n \in {Absent, <<>>, HealyBenCaps},
      rk \in {Absent, None, PyInt(7)},
      t \in {Absent, None, <<>>, StageTime},
      g \in {Absent, StageGap} }

RegularResult(i) ==
  [rider_name |-> YatesSimon, rank |-> PyInt(i), time |-> StageTime]

\* The lists of up to max_len results.
TopResults(max_len) ==
  {<<>>} \cup
  UNION { { [i \in 1..n |-> IF i = p THEN special ELSE RegularResult(i)] :
              p \in 1..n, special \in TopResultDicts } :
          n \in 1..max_len }

(***************************************************************************)
(* submit_stage_to_api (submit_to_api.py) and submit_startlist_to_api      *)
(* (scrape_startlist.py).  The scraper gives stage data or raises; the     *)
(* startlist scraper gives a list of riders, empty when it failed.  The    *)
(* POST raises a RequestException or gives a response with a status and a  *)
(* body: not JSON, JSON that is no object, or an object with a 'success'   *)
(* value and a 'data' value that the report can or cannot print.           *)
(***************************************************************************)
MaxRiders == 2

PyTrue == <<"True">>

PyFalse == <<"False">>

\* bool(v) for the values of 'success'
PyBool(v) == v \notin {Absent, None, PyFalse, PyInt(0), <<>>}

TeamName == <<"E", "F">>

StartlistRiders ==
  [rider_number : {PyInt(1), None}, rider_name : {BenHealy, None},
   team_name : {TeamName, None}]

\* get_startlist returns [] when it fails.
Startlists(max_len) == UNION {[1..n -> StartlistRiders] : n \in 0..max_len}

\* The preview prints the first 5 riders with {rider_number:3d} and
\* {rider_name:30s}; either raises TypeError on None.
PreviewRaises(startlist) ==
  \E i \in 1..Min(5, Len(startlist)) :
    startlist[i].rider_number = None \/ startlist[i].rider_name = None

TopEntry == [rider_name |-> BenHealy, position |-> PyInt(1), time_gap |-> DefaultGap]

StageScrapes ==
  {[raised |-> TRUE, items |-> <<>>], [raised |-> FALSE, items |-> <<>>],
   [raised |-> FALSE, items |-> <<TopEntry>>]}

NoScrape == [raised |-> FALSE, items |-> <<>>]

NotJson == [json |-> FALSE, object |-> FALSE, success |-> Absent, data_ok |-> FALSE]

JsonArray == [json |-> TRUE, object |-> FALSE, success |-> Absent, data_ok |-> FALSE]

Bodies ==
  {NotJson, JsonArray} \cup
  [json : {TRUE}, object : {TRUE},
   success : {Absent, PyTrue, PyFalse, PyInt(1), PyInt(0)}, data_ok : BOOLEAN]

StatusCodes == {200, 201, 304, 404, 500}

NoResponse == [error |-> FALSE, status |-> 0, body |-> NotJson]

Responses ==
  {[error |-> TRUE, status |-> 0, body |-> NotJson]} \cup
  [error : {FALSE}, status : StatusCodes, body : Bodies]

\* response.raise_for_status() raises HTTPError
RaiseForStatus(status) == 400 <= status /\ status < 600

\* faulty variant: the body's 'success' is not looked at.
AfterPost_IgnoresSuccess(r) ==
  IF r.error THEN {"None"}
  ELSE IF RaiseForStatus(r.status) THEN {"None"}
  ELSE IF ~r.body.json THEN {"None", "raised"}
  ELSE IF ~r.body.object THEN {"raised"}
  ELSE IF r.body.data_ok THEN {"result"} ELSE {"raised"}

\* How the call ends once requests.post has returned or raised.  A body
\* that is not JSON makes response.json() raise JSONDecodeError, a
\* RequestException in requests 2.27 and later and a ValueError before.
AfterPost(r) ==
  IF r.error THEN {"None"}
  ELSE IF RaiseForStatus(r.status) THEN {"None"}
  ELSE IF ~r.body.json THEN {"None", "raised"}
  ELSE IF ~r.body.object THEN {"raised"}
  ELSE IF PyBool(r.body.success)
         THEN IF r.body.data_ok THEN {"result"} ELSE {"raised"}
  ELSE {"None"}

(***************************************************************************)
(* FixedSeleniumScraper.scrape_stage (import-stages.py) as a whole.  Each  *)
(* extractor is a try block around its page reads and its writes to the    *)
(* data dict; Extractions(e, d) is what extractor e can make of the dict   *)
(* d, and whether an exception reached its handler.                        *)
(***************************************************************************)
ExtractorOrder ==
  <<"stage_info", "results", "jerseys", "combativity", "team_classification",
    "dnf_dns">>

\* The data dict as scrape_stage creates it.
ScrapedData ==
  [stage_number |-> 1, date |-> <<>>, distance |-> <<>>,
   departure_city |-> <<>>, arrival_city |-> <<>>, stage_type |-> <<>>,
   difficulty |-> <<>>, won_how |-> <<>>, top_20_finishers |-> <<>>,
   jerseys |-> [yellow |-> <<>>, green |-> <<>>, polka_dot |-> <<>>,
                white |-> <<>>],
   combativity |-> <<>>, team_classification |-> <<>>,
   dnf_riders |-> <<>>, dns_riders |-> <<>>]

\* The keys of the data dict that extractor e assigns.
ExtractorFields(e) ==
  CASE e = "stage_info" -> {"departure_city", "arrival_city", "distance", "date"}
    [] e = "results" -> {"top_20_finishers"}
    [] e = "jerseys" -> {"jerseys"}
    [] e = "combativity" -> {"combativity"}
    [] e = "team_classification" -> {"team_classification"}
    [] e = "dnf_dns" -> {"dnf_riders", "dns_riders"}

City == <<"L", "i", "l", "l", "e">>

Distance == <<"1", "8", "4", ".", "9", "k", "m">>

StageDate == <<"5", " ", "J", "u", "l", "y", " ", "2", "0", "2", "5">>

TeamEntry == [position |-> PyInt(1), team_name |-> <<"E", "F", " ", "P", "r", "o">>]

Jerseys == {"yellow", "green", "polka_dot", "white"}

Extractions(e, d) ==
  CASE e = "stage_info" ->
         {[data |-> d, raised |-> TRUE]} \cup
         { [data |-> [d EXCEPT
                        !.departure_city = IF route THEN City ELSE @,
                        !.arrival_city = IF route THEN City ELSE @,
                        !.distance = IF route THEN Distance ELSE @,
                        !.date = IF date THEN StageDate ELSE @],
            raised |-> FALSE] : route \in BOOLEAN, date \in BOOLEAN }
    [] e = "results" ->
         {[data |-> d, raised |-> TRUE]} \cup
         { [data |-> [d EXCEPT !.top_20_finishers = @ \o rows], raised |-> FALSE] :
             rows \in {<<>>, <<TopEntry>>} }
    [] e = "jerseys" ->
         { [data |-> [d EXCEPT
                        !.jerseys = [j \in Jerseys |->
                                       IF j \in found THEN BenHealy ELSE @[j]]],
            raised |-> r] : found \in SUBSET Jerseys, r \in BOOLEAN }
    [] e = "combativity" ->
         { [data |-> [d EXCEPT !.combativity = c], raised |-> r] :
             c \in {d.combativity, BenHealy}, r \in BOOLEAN }
    [] e = "team_classification" ->
         {[data |-> [d EXCEPT !.team_classification = <<>>], raised |-> TRUE]} \cup
         { [data |-> [d EXCEPT !.team_classification = teams], raised |-> FALSE] :
             teams \in {<<>>, <<TeamEntry>>} }
    [] e = "dnf_dns" ->
         { [data |-> [d EXCEPT !.dnf_riders = @ \o dnf, !.dns_riders = @ \o dns],
            raised |-> r] :
             dnf \in {<<>>, <<BenHealy>>}, dns \in {<<>>, <<BenHealy>>},
             r \in BOOLEAN }

\* faulty variant: an exception in an extractor ends scrape_stage.
AfterExtractor_AbortOnRaise(i, raised) ==
  IF raised \/ i = Len(ExtractorOrder) THEN "return" ELSE ExtractorOrder[i + 1]

\* What scrape_stage does after its i-th extractor: the next call, or
\* return data.
AfterExtractor(i, raised) ==
  IF i = Len(ExtractorOrder) THEN "return" ELSE ExtractorOrder[i + 1]

(***************************************************************************)
(* _extract_results and parse_time_gap (import-stages.py).  A row of the   *)
(* results table has a number of td cells, the text of its first cell, the *)
(* text of its first rider link (None without one) and the text of its     *)
(* time cell; row.text is these texts in a line.  The regular expressions  *)
(* are matched on the characters.                                          *)
(***************************************************************************)
MaxFinishers == 20

DoublePrime == "''"

\* str.isdigit(): the decimal digits and characters such as a superscript 2.
IsDigitC(c) == c \in {"0", "1", "2", "3", "4", "5", "6", "7", "8", "9", "^2"}

\* \d of re
ReDigit(c) == c \in {"0", "1", "2", "3", "4", "5", "6", "7", "8", "9"}

\* \s of re
ReSpace(c) == c \in {" ", "\t", "\n"}

\* The end of the longest run of \s, and of \d, that starts at i.
RECURSIVE SpaceEnd(_, _)
SpaceEnd(s, i) ==
  IF i <= Len(s) /\ ReSpace(s[i]) THEN SpaceEnd(s, i + 1) ELSE i

RECURSIVE DigitsEnd(_, _)
DigitsEnd(s, i) ==
  IF i <= Len(s) /\ ReDigit(s[i]) THEN DigitsEnd(s, i + 1) ELSE i

DigitValue(c) == CHOOSE d \in 0..9 : Digit(d) = c

\* int(digits)
RECURSIVE PyIntOf(_)
PyIntOf(ds) ==
  IF ds = <<>> THEN 0
  ELSE 10 * PyIntOf(SubSeq(ds, 1, Len(ds) - 1)) + DigitValue(ds[Len(ds)])

\* str(n)
RECURSIVE DecStr(_)
DecStr(n) == IF n < 10 THEN <<Digit(n)>> ELSE DecStr(n \div 10) \o <<Digit(n % 10)>>

\* f"{n:02d}"
Format02d(n) == IF n < 10 THEN <<"0", Digit(n)>> ELSE DecStr(n)

\* re.match(r'(\d+)', s).group(1); None when there is no match.
MatchDigits(s) ==
  IF DigitsEnd(s, 1) = 1 THEN None ELSE SubSeq(s, 1, DigitsEnd(s, 1) - 1)

\* re.search(r'\+\s*(\d+:\d+)', text).group(1); None when there is no match.
PlusMatchAt(text, i) ==
  LET j == SpaceEnd(text, i + 1)
      k == DigitsEnd(text, j)
      m == DigitsEnd(text, k + 1)
  IN  IF text[i] = "+" /\ k > j /\ k <= Len(text) /\ text[k] = ":" /\ m > k + 1
        THEN SubSeq(text, j, m - 1)
        ELSE None

\* re.search(r'\+\s*(\d+)″', text).group(1); None when there is no match.
NumMatchAt(text, i) ==
  LET j == SpaceEnd(text, i + 1)
      k == DigitsEnd(text, j)
  IN  IF text[i] = "+" /\ k > j /\ k <= Len(text) /\ text[k] = DoublePrime
        THEN SubSeq(text, j, k - 1)
        ELSE None

\* The leftmost match of each search, from position i on.
RECURSIVE PlusSearch(_, _)
PlusSearch(text, i) ==
  IF i > Len(text) THEN None
  ELSE IF PlusMatchAt(text, i) # None THEN PlusMatchAt(text, i)
  ELSE PlusSearch(text, i + 1)

RECURSIVE NumSearch(_, _)
NumSearch(text, i) ==
  IF i > Len(text) THEN None
  ELSE IF NumMatchAt(text, i) # None THEN NumMatchAt(text, i)
  ELSE NumSearch(text, i + 1)

\* faulty variant: a row without a gap gets the winner's "0:00".
ParseTimeGap_SameTimeZero(text, is_winner) ==
  IF is_winner THEN <<"0", ":", "0", "0">>
  ELSE LET plus_match == PlusSearch(text, 1)
           num_match == NumSearch(text, 1)
       IN  IF plus_match # None THEN <<"+">> \o plus_match
           ELSE IF num_match # None
                  THEN <<"+", "0", ":">> \o Format02d(PyIntOf(num_match))
           ELSE <<"0", ":", "0", "0">>

ParseTimeGap(text, is_winner) ==
  IF is_winner THEN <<"0", ":", "0", "0">>
  ELSE LET plus_match == PlusSearch(text, 1)
           num_match == NumSearch(text, 1)
       IN  IF plus_match # None THEN <<"+">> \o plus_match
           ELSE IF num_match # None
                  THEN <<"+", "0", ":">> \o Format02d(PyIntOf(num_match))
           ELSE <<"+", "0", ":", "0", "0">>

\* row.text
ResultRowText(r) ==
  r.pos_text \o <<" ">> \o (IF r.link = None THEN <<>> ELSE r.link)
    \o <<" ">> \o r.time_text

\* The body of the loop of _extract_results for one row, below the test of
\* the length: the list after the row.  A row on which the body raises
\* leaves the list as it is.
ResultsRowStep(finishers, r) ==
  IF r.cells < 4 THEN finishers
  ELSE LET pos_text == PyStrip(r.pos_text)
       IN  IF pos_text = <<>> \/ ~IsDigitC(pos_text[1]) THEN finishers
           ELSE IF MatchDigits(pos_text) = None THEN finishers
           ELSE LET position == PyIntOf(MatchDigits(pos_text))
                    rider_name == IF r.link = None THEN <<>> ELSE PyStrip(r.link)
                IN  IF rider_name = <<>> THEN finishers
                    ELSE Append(finishers,
                           [rider_name |-> ReformatRiderName(rider_name),
                            position |-> PyInt(position),
                            time_gap |-> ParseTimeGap(ResultRowText(r),
                                                      position = 1)])

WinnerTime == <<"4", ":", "0", "1", ":", "5", "9">>

\* The i-th row of a table as the site gives it.
RegularRow(i) ==
  [cells |-> 4, pos_text |-> DecStr(i), link |-> YatesSimon,
   time_text |-> IF i = 1 THEN WinnerTime ELSE <<"+", "0", ":", "0", "5">>]

\* Any other row: a header, a row without a rank or a rider, other times.
OddRows ==
  [cells : {4},
   pos_text : {<<>>, <<"R", "n", "k">>, <<"1">>, <<"1", "2">>, <<"^2">>},
   link : {None, <<" ">>, HealyBenCaps},
   time_text : {<<>>, WinnerTime, <<"+", " ", "1", ":", "1", "2">>,
                <<"+", "1", "2", DoublePrime>>, <<",", ",">>}]
    \cup {[RegularRow(i) EXCEPT !.cells = 3] : i \in 1..2}

NamesIdle == name = Unset /\ res = Unset /\ res2 = Unset

RowsIdle == stage = 0 /\ row = NoRow /\ data = NewData

SearchIdle ==
  stage_num = 0 /\ fetched = NoFetch /\ examined = {} /\ best = 0 /\ latest = NoStage

ResultsIdle == results = <<>> /\ ret = Unset

TableIdle == seen = <<>> /\ top_20_finishers = <<>>

ScrapeIdle == ran = <<>> /\ returned = "none"

SubmitIdle ==
  /\ fn = "none" /\ scraped = NoScrape /\ posts = 0
  /\ response = NoResponse /\ outcome = "running"

Init ==
  /\ name \in RawNames
  /\ pc = "start"
  /\ res = Unset
  /\ res2 = Unset
  /\ RowsIdle /\ SearchIdle /\ ResultsIdle /\ SubmitIdle /\ ScrapeIdle /\ TableIdle

\* rider_name passed to _format_name
FormatNameCall ==
  /\ pc = "start"
  /\ res' = FormatName(name)
  /\ pc' = "B"
  /\ UNCHANGED <<name, res2>>
  /\ UNCHANGED <<rowVars, searchVars, resultVars>>
  /\ UNCHANGED tableVars
  /\ UNCHANGED scrapeVars
  /\ UNCHANGED submitVars

\* rider_name passed to reformat_rider_name
ReformatCall ==
  /\ pc = "start"
  /\ res' = ReformatRiderName(name)
  /\ pc' = "A"
  /\ UNCHANGED <<name, res2>>
  /\ UNCHANGED <<rowVars, searchVars, resultVars>>
  /\ UNCHANGED tableVars
  /\ UNCHANGED scrapeVars
  /\ UNCHANGED submitVars

\* the result of _format_name passed to _format_name again
FormatNameAgain ==
  /\ pc = "B"
  /\ res2' = FormatName(res)
  /\ pc' = "BB"
  /\ UNCHANGED <<name, res>>
  /\ UNCHANGED <<rowVars, searchVars, resultVars>>
  /\ UNCHANGED tableVars
  /\ UNCHANGED scrapeVars
  /\ UNCHANGED submitVars

\* the result of _format_name passed to reformat_rider_name
ReformatAfterFormat ==
  /\ pc = "B"
  /\ res2' = ReformatRiderName(res)
  /\ pc' = "BA"
  /\ UNCHANGED <<name, res>>
  /\ UNCHANGED <<rowVars, searchVars, resultVars>>
  /\ UNCHANGED tableVars
  /\ UNCHANGED scrapeVars
  /\ UNCHANGED submitVars

\* the result of reformat_rider_name passed to reformat_rider_name again
ReformatAgain ==
  /\ pc = "A"
  /\ res2' = ReformatRiderName(res)
  /\ pc' = "AA"
  /\ UNCHANGED <<name, res>>
  /\ UNCHANGED <<rowVars, searchVars, resultVars>>
  /\ UNCHANGED tableVars
  /\ UNCHANGED scrapeVars
  /\ UNCHANGED submitVars

\* get_complete_stage_data: a jersey whose classification has name as the
\* leader's rider_name, or has no rows when there is no name
JerseyCall ==
  /\ pc = "start"
  /\ res' = JerseyField(IF name = None THEN <<>> ELSE <<[rider_name |-> name]>>)
  /\ pc' = "jersey"
  /\ UNCHANGED <<name, res2>>
  /\ UNCHANGED <<rowVars, searchVars, resultVars>>
  /\ UNCHANGED tableVars
  /\ UNCHANGED scrapeVars
  /\ UNCHANGED submitVars

\* get_complete_stage_data: the combativity field, name being the value
\* returned by _get_combativity
CombativityCall ==
  /\ pc = "start"
  /\ res' = CombativityField(name)
  /\ pc' = "combativity"
  /\ UNCHANGED <<name, res2>>
  /\ UNCHANGED <<rowVars, searchVars, resultVars>>
  /\ UNCHANGED tableVars
  /\ UNCHANGED scrapeVars
  /\ UNCHANGED submitVars

\* _extract_jerseys / _extract_combativity: name is the text of the rider
\* link, None when the row has no rider link
ExtractCall ==
  /\ pc = "start"
  /\ res' = ExtractedField(name)
  /\ pc' = "extract"
  /\ UNCHANGED <<name, res2>>
  /\ UNCHANGED <<rowVars, searchVars, resultVars>>
  /\ UNCHANGED tableVars
  /\ UNCHANGED scrapeVars
  /\ UNCHANGED submitVars

Next ==
  \/ FormatNameCall
  \/ ReformatCall
  \/ FormatNameAgain
  \/ ReformatAfterFormat
  \/ ReformatAgain
  \/ JerseyCall
  \/ CombativityCall
  \/ ExtractCall

Spec == Init /\ [][Next]_vars

(***************************************************************************)
(* scrape_stage, from the combativity page on: _extract_combativity walks  *)
(* the rows of its page and stops at the first row that passes the row     *)
(* test and holds a rider link; _extract_dnf_dns walks all rows of the     *)
(* dropouts page.  One step is one iteration of the loop; the page is      *)
(* read as the loop goes, so the next row is drawn at each iteration and   *)
(* the table may end after any row.  A page that fails to load is a table  *)
(* without rows.                                                           *)
(***************************************************************************)
InitRows ==
  /\ pc = "combativity"
  /\ stage \in 1..LastStage
  /\ row = NoRow
  /\ data = NewData
  /\ NamesIdle /\ SearchIdle /\ ResultsIdle /\ SubmitIdle /\ ScrapeIdle /\ TableIdle

CombativityRow ==
  /\ pc = "combativity"
  /\ row.at < MaxRows
  /\ \E r \in TableRows :
       /\ row' = [r EXCEPT !.at = row.at + 1]
       /\ IF RowIsForStage(r.text, stage) /\ r.link # None
            THEN /\ data' = [data EXCEPT
                               !.combativity = ReformatRiderName(PyStrip(r.link))]
                 /\ pc' = "combativity_set"
            ELSE UNCHANGED <<data, pc>>
  /\ UNCHANGED <<stage, nameVars, searchVars, resultVars>>
  /\ UNCHANGED tableVars
  /\ UNCHANGED scrapeVars
  /\ UNCHANGED submitVars

StartDropouts ==
  /\ pc \in {"combativity", "combativity_set"}
  /\ pc' = "dropouts"
  /\ row' = NoRow
  /\ UNCHANGED <<stage, data, nameVars, searchVars, resultVars>>
  /\ UNCHANGED tableVars
  /\ UNCHANGED scrapeVars
  /\ UNCHANGED submitVars

DropoutRow ==
  /\ pc = "dropouts"
  /\ row.at < MaxRows
  /\ \E r \in TableRows :
       /\ row' = [r EXCEPT !.at = row.at + 1]
       /\ IF RowIsForStage(r.text, stage) /\ r.link # None
            THEN LET rider_name == ReformatRiderName(PyStrip(r.link))
                 IN  IF Contains(r.text, <<"D", "N", "S">>)
                       THEN data' = [data EXCEPT
                                       !.dns_riders = Append(@, rider_name)]
                       ELSE data' = [data EXCEPT
                                       !.dnf_riders = Append(@, rider_name)]
            ELSE UNCHANGED data
  /\ UNCHANGED <<pc, stage, nameVars, searchVars, resultVars>>
  /\ UNCHANGED tableVars
  /\ UNCHANGED scrapeVars
  /\ UNCHANGED submitVars

DropoutsDone ==
  /\ pc = "dropouts"
  /\ pc' = "scraped"
  /\ row' = NoRow
  /\ UNCHANGED <<stage, data, nameVars, searchVars, resultVars>>
  /\ UNCHANGED tableVars
  /\ UNCHANGED scrapeVars
  /\ UNCHANGED submitVars

NextRows ==
  \/ CombativityRow
  \/ StartDropouts
  \/ DropoutRow
  \/ DropoutsDone

SpecRows == InitRows /\ [][NextRows]_vars

(***************************************************************************)
(* find_latest_stage and its caller in submit_to_api.py.  One step is one  *)
(* iteration of the loop over stage_num = 21, 20, ..., 1; the stage data   *)
(* come from the network, so they are drawn when the stage is fetched.     *)
(***************************************************************************)
InitSearch ==
  /\ pc = "search"
  /\ stage_num = LastStage
  /\ fetched = NoFetch
  /\ examined = {}
  /\ best = 0
  /\ latest = NoStage
  /\ NamesIdle /\ RowsIdle /\ ResultsIdle /\ SubmitIdle /\ ScrapeIdle /\ TableIdle

CheckStage ==
  /\ pc = "search"
  /\ stage_num >= 1
  /\ \E f \in StageFetches :
       /\ fetched' = f
       /\ examined' = examined \cup {stage_num}
       /\ best' = IF Completed(f) THEN Max(best, stage_num) ELSE best
       /\ IF StageOutcome(f) = "return"
            THEN latest' = stage_num /\ pc' = "returned" /\ UNCHANGED stage_num
            ELSE stage_num' = stage_num - 1 /\ UNCHANGED <<latest, pc>>
  /\ UNCHANGED <<nameVars, rowVars, resultVars>>
  /\ UNCHANGED tableVars
  /\ UNCHANGED scrapeVars
  /\ UNCHANGED submitVars

NoStageFound ==
  /\ pc = "search"
  /\ stage_num = 0
  /\ latest' = NoStage
  /\ pc' = "returned"
  /\ UNCHANGED <<stage_num, fetched, examined, best, nameVars, rowVars, resultVars>>
  /\ UNCHANGED tableVars
  /\ UNCHANGED scrapeVars
  /\ UNCHANGED submitVars

\* submit_to_api.py: if not stage_number: sys.exit(1)
MainDefault ==
  /\ pc = "returned"
  /\ pc' = IF latest = NoStage THEN "exit" ELSE "submit"
  /\ UNCHANGED <<searchVars, nameVars, rowVars, resultVars>>
  /\ UNCHANGED tableVars
  /\ UNCHANGED scrapeVars
  /\ UNCHANGED submitVars

NextSearch ==
  \/ CheckStage
  \/ NoStageFound
  \/ MainDefault

SpecSearch == InitSearch /\ [][NextSearch]_vars

(***************************************************************************)
(* get_complete_stage_data, the dropouts: _get_dnf_dns reads the results   *)
(* of the stage data, then every name of both lists goes through           *)
(* _format_name.                                                           *)
(***************************************************************************)
InitDropouts ==
  /\ pc = "stage_data"
  /\ results \in DropoutResults(MaxResults)
  /\ ret = Unset
  /\ NamesIdle /\ RowsIdle /\ SearchIdle /\ SubmitIdle /\ ScrapeIdle /\ TableIdle

GetDnfDnsCall ==
  /\ pc = "stage_data"
  /\ ret' = GetDnfDns(results)
  /\ pc' = "dnf_dns"
  /\ UNCHANGED <<results, nameVars, rowVars, searchVars>>
  /\ UNCHANGED tableVars
  /\ UNCHANGED scrapeVars
  /\ UNCHANGED submitVars

FormatDropouts ==
  /\ pc = "dnf_dns"
  /\ ret' = [dnf |-> FormatAll(ret.dnf), dns |-> FormatAll(ret.dns)]
  /\ pc' = "dropouts"
  /\ UNCHANGED <<results, nameVars, rowVars, searchVars>>
  /\ UNCHANGED tableVars
  /\ UNCHANGED scrapeVars
  /\ UNCHANGED submitVars

NextDropouts ==
  \/ GetDnfDnsCall
  \/ FormatDropouts

SpecDropouts == InitDropouts /\ [][NextDropouts]_vars

(***************************************************************************)
(* get_complete_stage_data, the top 20: _format_top_20 on the results.     *)
(***************************************************************************)
InitTop ==
  /\ pc = "stage_data"
  /\ results \in TopResults(TopN + MaxExtra)
  /\ ret = Unset
  /\ NamesIdle /\ RowsIdle /\ SearchIdle /\ SubmitIdle /\ ScrapeIdle /\ TableIdle

FormatTop20Call ==
  /\ pc = "stage_data"
  /\ ret' = FormatTop20(results)
  /\ pc' = "top_20"
  /\ UNCHANGED <<results, nameVars, rowVars, searchVars>>
  /\ UNCHANGED tableVars
  /\ UNCHANGED scrapeVars
  /\ UNCHANGED submitVars

NextTop == FormatTop20Call

SpecTop == InitTop /\ [][NextTop]_vars

(***************************************************************************)
(* One call of submit_stage_to_api or of submit_startlist_to_api, and the  *)
(* end of the script that made it.                                         *)
(***************************************************************************)
InitSubmit ==
  /\ pc = "submit"
  /\ fn \in {"stage", "startlist"}
  /\ scraped = NoScrape
  /\ posts = 0
  /\ response = NoResponse
  /\ outcome = "running"
  /\ NamesIdle /\ RowsIdle /\ SearchIdle /\ ResultsIdle /\ ScrapeIdle /\ TableIdle

\* get_complete_stage_data, then the payload and the summary
ScrapeStage ==
  /\ pc = "submit"
  /\ fn = "stage"
  /\ \E s \in StageScrapes :
       /\ scraped' = s
       /\ IF s.raised
            THEN outcome' = "None" /\ pc' = "done"
            ELSE outcome' = outcome /\ pc' = "post"
  /\ UNCHANGED <<fn, posts, response>>
  /\ UNCHANGED <<nameVars, rowVars, searchVars, resultVars>>
  /\ UNCHANGED tableVars
  /\ UNCHANGED scrapeVars

\* get_startlist, then the summary, the preview and the payload
ScrapeStartlist ==
  /\ pc = "submit"
  /\ fn = "startlist"
  /\ \E startlist \in Startlists(MaxRiders) :
       /\ scraped' = [raised |-> FALSE, items |-> startlist]
       /\ IF startlist = <<>>
            THEN outcome' = "None" /\ pc' = "done"
            ELSE IF PreviewRaises(startlist)
                   THEN outcome' = "raised" /\ pc' = "done"
                   ELSE outcome' = outcome /\ pc' = "post"
  /\ UNCHANGED <<fn, posts, response>>
  /\ UNCHANGED <<nameVars, rowVars, searchVars, resultVars>>
  /\ UNCHANGED tableVars
  /\ UNCHANGED scrapeVars

\* requests.post and what follows it
Post ==
  /\ pc = "post"
  /\ posts' = posts + 1
  /\ \E r \in Responses :
       /\ response' = r
       /\ outcome' \in AfterPost(r)
  /\ pc' = "done"
  /\ UNCHANGED <<fn, scraped>>
  /\ UNCHANGED <<nameVars, rowVars, searchVars, resultVars>>
  /\ UNCHANGED tableVars
  /\ UNCHANGED scrapeVars

\* __main__: if result: ... else: sys.exit(1)
MainEnd ==
  /\ pc = "done"
  /\ pc' = IF outcome = "result" THEN "complete" ELSE "exit"
  /\ UNCHANGED submitVars
  /\ UNCHANGED <<nameVars, rowVars, searchVars, resultVars>>
  /\ UNCHANGED tableVars
  /\ UNCHANGED scrapeVars

NextSubmit ==
  \/ ScrapeStage
  \/ ScrapeStartlist
  \/ Post
  \/ MainEnd

SpecSubmit == InitSubmit /\ [][NextSubmit]_vars

(***************************************************************************)
(* scrape_stage: the main page is loaded, the data dict is created, the    *)
(* six extractors are called, data is returned.  Each entry of ran keeps   *)
(* what the extractor left in its own keys.                                *)
(***************************************************************************)
InitScrape ==
  /\ pc = "load"
  /\ stage \in {1, LastStage}
  /\ row = NoRow
  /\ data = NewData
  /\ ran = <<>>
  /\ returned = "none"
  /\ NamesIdle /\ SearchIdle /\ ResultsIdle /\ SubmitIdle /\ TableIdle

LoadPage ==
  /\ pc = "load"
  /\ \E loaded \in BOOLEAN :
       IF loaded
         THEN /\ data' = [ScrapedData EXCEPT !.stage_number = stage]
              /\ pc' = ExtractorOrder[1]
              /\ UNCHANGED returned
         ELSE /\ returned' = "None"
              /\ pc' = "returned"
              /\ UNCHANGED data
  /\ UNCHANGED <<stage, row, ran>>
  /\ UNCHANGED <<nameVars, searchVars, resultVars, submitVars>>
  /\ UNCHANGED tableVars

RunExtractor ==
  /\ \E i \in 1..Len(ExtractorOrder) :
       /\ pc = ExtractorOrder[i]
       /\ \E x \in Extractions(ExtractorOrder[i], data) :
            /\ data' = x.data
            /\ ran' = Append(ran, [extractor |-> ExtractorOrder[i],
                                    raised |-> x.raised,
                                    wrote |-> [k \in ExtractorFields(ExtractorOrder[i])
                                                 |-> x.data[k]]])
            /\ pc' = AfterExtractor(i, x.raised)
  /\ UNCHANGED <<stage, row, returned>>
  /\ UNCHANGED <<nameVars, searchVars, resultVars, submitVars>>
  /\ UNCHANGED tableVars

ReturnData ==
  /\ pc = "return"
  /\ returned' = "data"
  /\ pc' = "returned"
  /\ UNCHANGED <<stage, row, data, ran>>
  /\ UNCHANGED <<nameVars, searchVars, resultVars, submitVars>>
  /\ UNCHANGED tableVars

NextScrape ==
  \/ LoadPage
  \/ RunExtractor
  \/ ReturnData

SpecScrape == InitScrape /\ [][NextScrape]_vars

(***************************************************************************)
(* _extract_results.  One step is one iteration of the loop over the rows  *)
(* of the table: the row is read, the loop stops if the list is full, else *)
(* the row is handled.  The table has regular rows and at most one odd     *)
(* row, and can end after any row.                                         *)
(***************************************************************************)
InitTable ==
  /\ pc = "results_rows"
  /\ seen = <<>>
  /\ top_20_finishers = <<>>
  /\ NamesIdle /\ RowsIdle /\ SearchIdle /\ ResultsIdle /\ SubmitIdle /\ ScrapeIdle

RowsAfter(rows) ==
  {RegularRow(Len(rows) + 1)} \cup
  (IF \A i \in 1..Len(rows) : rows[i] = RegularRow(i) THEN OddRows ELSE {})

ResultsRow ==
  /\ pc = "results_rows"
  /\ Len(seen) < MaxFinishers + MaxExtra
  /\ \E r \in RowsAfter(seen) :
       /\ seen' = Append(seen, r)
       /\ IF Len(top_20_finishers) >= MaxFinishers
            THEN pc' = "results_done" /\ UNCHANGED top_20_finishers
            ELSE /\ top_20_finishers' = ResultsRowStep(top_20_finishers, r)
                 /\ UNCHANGED pc
  /\ UNCHANGED <<nameVars, rowVars, searchVars, resultVars, submitVars, scrapeVars>>

ResultsEnd ==
  /\ pc = "results_rows"
  /\ pc' = "results_done"
  /\ UNCHANGED tableVars
  /\ UNCHANGED <<nameVars, rowVars, searchVars, resultVars, submitVars, scrapeVars>>

NextTable ==
  \/ ResultsRow
  \/ ResultsEnd

SpecTable == InitTable /\ [][NextTable]_vars

(***************************************************************************)
(* Vocabulary of the properties.                                           *)
(***************************************************************************)
IsStr(x) == x \notin {None, Unset, Raised}

Words(x) == PySplit(x)

\* the particle set of the specification
ParticleSet ==
  { <<"v","a","n">>, <<"d","e","r">>, <<"d","e">>, <<"d","e","n">>,
    <<"l","e">>, <<"d","o","s">>, <<"d","a">>, <<"d","i">>, <<"d","e","l">>,
    <<"l","a">>, <<"v","o","n">>, <<"z","u">> }

IsParticle(t) == PyLower(t) \in ParticleSet

HasParticle(w) == \E i \in 1..Len(w) : IsParticle(w[i])

\* the same word up to the case of its letters
SameLetters(a, b) ==
  /\ Len(a) = Len(b)
  /\ \A i \in 1..Len(a) : LowerMap[a[i]] = LowerMap[b[i]]

SameWords(v, w) ==
  /\ Len(v) = Len(w)
  /\ \A i \in 1..Len(v) : SameLetters(v[i], w[i])

\* a letter is upper-case exactly when it starts a run of letters
TitleCased(t) ==
  \A i \in 1..Len(t) :
    IsCased(t[i]) => (IsUpperC(t[i]) <=> (i = 1 \/ ~IsCased(t[i-1])))

\* at least one letter, and every letter upper-case
AllCaps(t) ==
  /\ \E i \in 1..Len(t) : IsUpperC(t[i])
  /\ \A i \in 1..Len(t) : IsCased(t[i]) => IsUpperC(t[i])

\* the words after the first k, followed by the first k
Rotate(w, k) == SubSeq(w, k + 1, Len(w)) \o SubSeq(w, 1, k)

\* 1-based position of the last particle of w
LastParticlePos(w) ==
  CHOOSE i \in 1..Len(w) :
    IsParticle(w[i]) /\ \A j \in (i + 1)..Len(w) : ~IsParticle(w[j])

\* the number of leading words that make up the surname under layout B
SurnameLen(w) ==
  IF HasParticle(w)
  THEN IF LastParticlePos(w) + 1 <= Len(w) THEN LastParticlePos(w) + 1 ELSE Len(w)
  ELSE 1

IsAscii(x) == \A i \in 1..Len(x) : x[i] \in Ascii

\* ASCII letters only, the first upper-case and the others lower-case
PlainTitleWord(t) ==
  /\ t # <<>>
  /\ t[1] \in AsciiUpper
  /\ \A i \in 2..Len(t) : t[i] \in AsciiLower

(***************************************************************************)
(* C1: layout B, no particle, at least two words: the output is words 2..n *)
(* in their order followed by word 1, up to the case of the letters, as in *)
(* "Yates Simon" -> "Simon Yates" and "Johannessen Tobias Halland" ->      *)
(* "Tobias Halland Johannessen".                                           *)
(***************************************************************************)
C1_NoParticleReorder ==
  (pc = "B" /\ IsStr(name) /\ Len(Words(name)) >= 2 /\ ~HasParticle(Words(name)))
    => /\ IsStr(res)
       /\ SameWords(Words(res), Rotate(Words(name), 1))
       /\ (name = YatesSimon => res = SimonYates)
       /\ (name = JohannessenTobiasHalland => res = TobiasHallandJohannessen)

C1_Witness ==
  pc = "B" /\ name = JohannessenTobiasHalland /\ res = TobiasHallandJohannessen

(***************************************************************************)
(* C2: layout B, at least one particle: the surname is the words up to and *)
(* including the word after the last particle, the first name the words    *)
(* that remain; the output is the first name followed by the surname, each *)
(* in its order, as in "van den Berg Marijn" -> "Marijn van den Berg".     *)
(***************************************************************************)
C2_ParticleSurnameSpan ==
  (pc = "B" /\ IsStr(name) /\ HasParticle(Words(name)))
    => LET w == Words(name)
           k == IF LastParticlePos(w) + 1 <= Len(w) THEN LastParticlePos(w) + 1 ELSE Len(w)
       IN  /\ IsStr(res)
           /\ SameWords(Words(res), SubSeq(w, k + 1, Len(w)) \o SubSeq(w, 1, k))
           /\ (name = VanDenBergMarijn => res = MarijnVanDenBerg)

C2_Witness ==
  pc = "B" /\ name = VanDenBergMarijn /\ res = MarijnVanDenBerg

(***************************************************************************)
(* C3: both layouts: when the input has a word that is a particle in any   *)
(* casing, every particle word of the output is entirely lower-case.       *)
(***************************************************************************)
C3_ParticlesLowercased ==
  (pc \in {"B", "A"} /\ IsStr(name) /\ HasParticle(Words(name)))
    => /\ IsStr(res)
       /\ \A i \in 1..Len(Words(res)) :
            IsParticle(Words(res)[i]) => Words(res)[i] = PyLower(Words(res)[i])

(***************************************************************************)
(* C4: layout A: for every non-empty input, also one of a single word, the *)
(* returned string is ASCII-only.                                          *)
(***************************************************************************)
C4_ReformatAsciiOnly ==
  (pc = "A" /\ IsStr(name) /\ name # <<>>) => IsAscii(res)

(***************************************************************************)
(* C5: layout A on an ASCII, title-cased, particle-free, single-spaced     *)
(* name.  Original: the output equals the input.  Amended: with two or     *)
(* more words the output is the last word followed by the other words in   *)
(* their order, casing unchanged ("Simon Yates" -> "Yates Simon"); a       *)
(* single word is returned as it is.                                       *)
(***************************************************************************)
CanonicalPlainName(x) ==
  /\ IsStr(x)
  /\ Words(x) # <<>>
  /\ x = PyJoin(Words(x))
  /\ \A i \in 1..Len(Words(x)) : PlainTitleWord(Words(x)[i]) /\ ~IsParticle(Words(x)[i])

C6_Original ==
  (pc = "BA" /\ IsStr(name) /\ Len(Words(name)) >= 2 /\ ~HasParticle(Words(name)))
    => res2 = res

C6_Amended ==
  (pc = "BA" /\ IsStr(name) /\ IsAscii(name)
     /\ Len(Words(name)) >= 2 /\ ~HasParticle(Words(name)))
    => LET w == Words(name)
           v == Words(res2)
       IN  /\ IsStr(res2)
           /\ res2 = PyJoin(v)
           /\ SameWords(v, w)
           /\ \A i \in 1..Len(v) : TitleCased(v[i])
           /\ SameWords(v, Rotate(Words(res), Len(w) - 1))

C6_Witness ==
  pc = "BA" /\ name = YatesSimon /\ res = SimonYates /\ res2 = YatesSimon

(***************************************************************************)
(* C7: a layout applied to its own result.  Original: for every non-empty  *)
(* input the second result equals the first.  Amended: that holds for      *)
(* layout B when the input has exactly one word or contains a particle,    *)
(* and for layout A when the accent-stripped input has fewer than two      *)
(* words.                                                                  *)
(***************************************************************************)
C7_Original ==
  (pc \in {"BB", "AA"} /\ IsStr(name) /\ name # <<>>) => res2 = res

C7_Amended ==
  /\ (pc = "BB" /\ IsStr(name)
        /\ (Len(Words(name)) = 1 \/ HasParticle(Words(name))))
       => res2 = res
  /\ (pc = "AA" /\ IsStr(name) /\ name # <<>>
        /\ Len(Words(NfkdAscii(name))) < 2)
       => res2 = res

C7_Witness ==
  pc = "BB" /\ name = VanDenBergMarijn /\ res = MarijnVanDenBerg /\ res2 = res

(***************************************************************************)
(* C8: for None or the empty string _format_name returns None and          *)
(* reformat_rider_name returns the empty string, neither raises, and a     *)
(* jersey without leader, a missing combativity and a row without rider    *)
(* link give None or the empty string for that field.                      *)
(***************************************************************************)
C8_AbsentStaysAbsent ==
  (name \in {None, <<>>})
    => /\ pc = "B" => res = None
       /\ pc = "A" => res = <<>>
       /\ pc \in {"jersey", "combativity"} => res = None
       /\ pc = "extract" => res = <<>>
       /\ pc \in {"BB", "BA", "AA"} => (res \in {None, <<>>} /\ res2 \in {None, <<>>})

C8_Witness ==
  pc = "jersey" /\ name = None /\ res = None

(***************************************************************************)
(* C9: an input of a single word.  Original: under either layout the       *)
(* output is that word in title case.  Amended: layout A returns that word *)
(* in title case, layout B returns the word as written ("HEALY" ->         *)
(* "HEALY"); no word is added.                                             *)
(***************************************************************************)
IsMononym(x) == IsStr(x) /\ Len(Words(x)) = 1

TitleOfSameWord(out, word) ==
  /\ IsStr(out)
  /\ Len(Words(out)) = 1
  /\ SameLetters(Words(out)[1], word)
  /\ TitleCased(Words(out)[1])

C9_Original ==
  (pc \in {"B", "A"} /\ IsMononym(name)) => TitleOfSameWord(res, Words(name)[1])

C9_Amended ==
  /\ (pc = "A" /\ IsMononym(name)) => TitleOfSameWord(res, Words(name)[1])
  /\ (pc = "B" /\ IsMononym(name)) => res = Words(name)[1]

C9_Witness ==
  pc = "B" /\ name = <<"H","E","A","L","Y">> /\ res = <<"H","E","A","L","Y">>

(***************************************************************************)
(* C10: layout B, when the name is reordered (the first name is not        *)
(* empty): a word that is not a particle comes out in title case when it   *)
(* is all upper-case ("HEALY Ben" -> "Ben Healy") and exactly as written   *)
(* otherwise ("McEwen" stays "McEwen").                                    *)
(***************************************************************************)
C10_CasingRepair ==
  (pc = "B" /\ IsStr(name) /\ Len(Words(name)) >= 2
     /\ SurnameLen(Words(name)) < Len(Words(name)))
    => LET w == Words(name)
           n == Len(w)
           k == SurnameLen(w)
           v == Words(res)
           at(i) == IF i <= k THEN n - k + i ELSE i - k
       IN  /\ IsStr(res)
           /\ Len(v) = n
           /\ \A i \in 1..n :
                ~IsParticle(w[i]) =>
                  IF AllCaps(w[i])
                  THEN SameLetters(v[at(i)], w[i]) /\ TitleCased(v[at(i)])
                  ELSE v[at(i)] = w[i]
           /\ (name = HealyBenCaps => res = BenHealy)

C10_Witness ==
  pc = "B" /\ name = HealyBenCaps /\ res = BenHealy

(***************************************************************************)
(* C11: layout B, a name of fewer than two words or one whose surname      *)
(* takes every word.  Original: the input string is returned unchanged.    *)
(* Amended: the input is returned with the blanks in front of it and       *)
(* behind it removed and nothing else changed (words, order, casing and    *)
(* the blanks between the words are kept).                                 *)
(***************************************************************************)
PassesThrough(x) ==
  /\ IsStr(x)
  /\ x # <<>>
  /\ (Len(Words(x)) < 2 \/ SurnameLen(Words(x)) >= Len(Words(x)))

\* s is x without the blanks at its two ends
TrimOf(s, x) ==
  /\ IsStr(s)
  /\ s # <<>> => (s[1] # Space /\ s[Len(s)] # Space)
  /\ \E l \in 0..Len(x) : \E t \in 0..Len(x) : x = Blanks(l) \o s \o Blanks(t)

C11_Original ==
  (pc = "B" /\ PassesThrough(name)) => res = name

C11_Amended ==
  (pc = "B" /\ PassesThrough(name)) => TrimOf(res, name)

C11_Witness ==
  /\ pc = "B"
  /\ name = <<"V","A","N"," "," ","B","e","r","g">>
  /\ res = name

(***************************************************************************)
(* C12: for every non-empty input the string returned by either layout has *)
(* no blank in front or behind and exactly one blank between two           *)
(* consecutive words.                                                      *)
(***************************************************************************)
C12_CanonicalWhitespace ==
  (pc \in {"B", "A"} /\ IsStr(name) /\ name # <<>>)
    => (IsStr(res) /\ res = PyJoin(Words(res)))

(***************************************************************************)
(* C13: for every string input (any number of words, punctuation, a        *)
(* particle in any position, blanks only) both layouts return a value and  *)
(* do not raise, and the surname end index of layout B never exceeds the   *)
(* number of words.                                                        *)
(***************************************************************************)
C13_Total ==
  (IsStr(name) /\ pc \in {"B", "A"})
    => /\ res # Raised
       /\ res # Unset
       /\ pc = "A" => IsStr(res)
       /\ pc = "B" => (IsStr(res) \/ (res = None /\ name = <<>>))
       /\ (pc = "B" /\ Len(Words(name)) >= 2)
            => SurnameEndIdx(Words(name)) \in 1..Len(Words(name))

C13_Witness ==
  pc = "A" /\ name = <<" ">> /\ res = <<" ">>

(***************************************************************************)
(* C14: layout A, two or more words after accent stripping: the output is  *)
(* the last word in title case followed by the other words in their order, *)
(* each lower-case if it is a particle and title-cased otherwise.          *)
(***************************************************************************)
C14_LayoutAAlgorithm ==
  (pc = "A" /\ IsStr(name) /\ Len(Words(NfkdAscii(name))) >= 2)
    => LET w == Words(NfkdAscii(name))
           n == Len(w)
           v == Words(res)
       IN  /\ IsStr(res)
           /\ res = PyJoin(v)
           /\ Len(v) = n
           /\ SameLetters(v[1], w[n]) /\ TitleCased(v[1])
           /\ \A i \in 1..(n - 1) :
                /\ SameLetters(v[i + 1], w[i])
                /\ IF IsParticle(w[i])
                   THEN v[i + 1] = PyLower(w[i])
                   ELSE TitleCased(v[i + 1])

(***************************************************************************)
(* C15: layout B: for an input with accented letters the output has only   *)
(* the base Latin letters, as the output of layout A has.                  *)
(***************************************************************************)
HasAccent(x) == \E i \in 1..Len(x) : x[i] \in {"e^", "E^"}

C15_FormatNameStripsAccents ==
  (pc = "B" /\ IsStr(name) /\ HasAccent(name))
    => (IsStr(res) /\ ~HasAccent(res))

(***************************************************************************)
(* C16: a word is a particle for layout B exactly when it is one for       *)
(* layout A, and exactly when its lower-case form is one of the twelve     *)
(* words of the particle set.                                              *)
(***************************************************************************)
ParticleForB(t) == LastParticleIdx(<<t>>) = 0

ParticleForA(t) == t # <<>> /\ proper_case(t) = PyLower(t) /\ proper_case(t) # PyTitle(t)

C16_OneParticleSet ==
  (pc \in {"B", "A"} /\ IsStr(name))
    => \A i \in 1..Len(Words(name)) :
         LET t == Words(name)[i]
         IN  /\ ParticleForB(t) <=> ParticleForA(t)
             /\ ParticleForB(t) <=> IsParticle(t)

(***************************************************************************)
(* C17: for every requested stage N in 1..21 a rider is added to           *)
(* dnf_riders or dns_riders, and combativity is set, only from a row that  *)
(* belongs to stage N; a row of another stage never contributes.           *)
(* Refuted: the row test accepts every row whose text starts with          *)
(* "Stage N", so the rows of stages 10 to 19 pass it for N = 1 and those   *)
(* of stages 20 and 21 for N = 2.                                          *)
(***************************************************************************)
C17_OnlyRowsOfRequestedStage ==
  [][(data' # data) => row'.stage = stage]_vars

(***************************************************************************)
(* C18: find_latest_stage returns the largest stage number n in 1..21 for  *)
(* which the fetch succeeds, the results are non-empty and the date is     *)
(* today or earlier; a stage whose fetch or date parsing raises is skipped *)
(* and the search goes on; None is returned exactly when no stage of       *)
(* 1..21 is such a stage, and then the caller exits.                       *)
(***************************************************************************)
C18_LatestCompletedStage ==
  pc \in {"returned", "exit", "submit"} =>
    /\ latest = best
    /\ latest # NoStage => examined = latest..LastStage
    /\ latest = NoStage => examined = 1..LastStage
    /\ pc = "exit" => latest = NoStage
    /\ pc = "submit" => latest \in 1..LastStage

\* Stage 21 raised or was not completed, stage 20 is dated today.
C18_Witness ==
  /\ pc = "submit"
  /\ latest = LastStage - 1
  /\ examined = {LastStage - 1, LastStage}
  /\ fetched.date_str = [kind |-> "iso", days |-> 0]

(***************************************************************************)
(* C19: _get_dnf_dns partitions the results by status.  A result with a    *)
(* non-empty rider_name is in the dns list iff its status is 'DNS', in the *)
(* dnf list iff its status is 'DNF', 'OTL' or 'DSQ', in neither for any    *)
(* other status; none is in both or in a list twice; results without a     *)
(* rider_name are skipped; both lists keep the order of the input, also    *)
(* after their names went through _format_name.                            *)
(***************************************************************************)
HasRiderName(r) ==
  "rider_name" \in DOMAIN r /\ r.rider_name \notin {None, <<>>}

StatusIn(r, S) == "status" \in DOMAIN r /\ r.status \in S

IsDnsResult(r) == HasRiderName(r) /\ StatusIn(r, {<<"D", "N", "S">>})

IsDnfResult(r) ==
  HasRiderName(r)
    /\ StatusIn(r, {<<"D", "N", "F">>, <<"O", "T", "L">>, <<"D", "S", "Q">>})

RiderNames(rs) == [i \in 1..Len(rs) |-> rs[i].rider_name]

C19_PartitionByStatus ==
  /\ pc = "dnf_dns" =>
       /\ ret.dns = RiderNames(SelectSeq(results, IsDnsResult))
       /\ ret.dnf = RiderNames(SelectSeq(results, IsDnfResult))
       /\ \A i \in 1..Len(results) : ~(IsDnsResult(results[i]) /\ IsDnfResult(results[i]))
  /\ pc = "dropouts" =>
       /\ Len(ret.dns) = Len(SelectSeq(results, IsDnsResult))
       /\ Len(ret.dnf) = Len(SelectSeq(results, IsDnfResult))
       /\ \A i \in 1..Len(ret.dns) :
            ret.dns[i] = FormatName(SelectSeq(results, IsDnsResult)[i].rider_name)
       /\ \A i \in 1..Len(ret.dnf) :
            ret.dnf[i] = FormatName(SelectSeq(results, IsDnfResult)[i].rider_name)

\* A rider outside the time limit, then one who did not start.
C19_Witness ==
  /\ pc = "dnf_dns"
  /\ results = << [rider_name |-> YatesSimon, status |-> <<"O", "T", "L">>],
                  [rider_name |-> HealyBenCaps, status |-> <<"D", "N", "S">>] >>
  /\ ret = [dnf |-> <<YatesSimon>>, dns |-> <<HealyBenCaps>>]

(***************************************************************************)
(* C20: _format_top_20 returns min(20, len(results)) entries, one for each *)
(* of the first 20 results and in their order; the rider_name of an entry  *)
(* is the result's name in layout B, its position is an integer, the       *)
(* result's rank, or its 1-based index when no rank is given, and its      *)
(* time_gap is a string: 'time', else 'gap', else "0:00".                  *)
(* Refuted: a result whose 'rank' is None gets the position None.          *)
(***************************************************************************)
IsPyInt(v) == Len(v) = 2 /\ v[1] = "int"

RankGiven(r) == "rank" \in DOMAIN r /\ r.rank # None

FieldGiven(r, key) == key \in DOMAIN r /\ r[key] \notin {None, <<>>}

C20_TopTwentyEntries ==
  pc = "top_20" =>
    /\ Len(ret) = Min(20, Len(results))
    /\ \A i \in 1..Len(ret) :
         /\ HasRiderName(results[i]) =>
              ret[i].rider_name = FormatName(results[i].rider_name)
         /\ IsPyInt(ret[i].position)
         /\ ret[i].position =
              IF RankGiven(results[i]) THEN results[i].rank ELSE PyInt(i)
         /\ IsStr(ret[i].time_gap)
         /\ ret[i].time_gap =
              IF FieldGiven(results[i], "time") THEN results[i].time
              ELSE IF FieldGiven(results[i], "gap") THEN results[i].gap
              ELSE <<"0", ":", "0", "0">>

(***************************************************************************)
(* C21: a call of submit_stage_to_api or submit_startlist_to_api issues at *)
(* most one POST, and only after the scraper gave data without raising     *)
(* (for the startlist: at least one rider); when scraping fails it returns *)
(* None without a POST.  Original: it returns a result only when the POST  *)
(* got an HTTP success status and a body with success = true.  Amended: it *)
(* returns a result only when the POST got a response whose status is not  *)
(* a 4xx or 5xx error and whose body is a JSON object with a truthy        *)
(* 'success'.                                                              *)
(***************************************************************************)
Called == pc \in {"post", "done", "complete", "exit"}

ScrapeFailed == scraped.raised \/ (fn = "startlist" /\ scraped.items = <<>>)

C21_Ordering ==
  /\ posts <= 1
  /\ posts = 1 => (Called /\ ~ScrapeFailed /\ pc # "post")
  /\ (Called /\ ScrapeFailed) => (outcome = "None" /\ posts = 0)
  /\ outcome = "result" => (posts = 1 /\ ~response.error)

C21_Original ==
  /\ C21_Ordering
  /\ outcome = "result" =>
       (response.status \in 200..299 /\ response.body.success = PyTrue)

C21_Amended ==
  /\ C21_Ordering
  /\ outcome = "result" =>
       /\ ~(response.status \in 400..599)
       /\ response.body.json /\ response.body.object
       /\ PyBool(response.body.success)

C21_Witness ==
  /\ pc = "complete"
  /\ fn = "stage"
  /\ posts = 1
  /\ outcome = "result"
  /\ response.status = 200
  /\ response.body.success = PyTrue

(***************************************************************************)
(* C22: once the main page has loaded, scrape_stage runs its extractors in *)
(* the order stage-info, results, jerseys, combativity, team               *)
(* classification, DNF/DNS; an exception inside an extractor does not keep *)
(* the later ones from running and leaves what the earlier ones wrote      *)
(* unchanged; scrape_stage then returns the data dict, and returns None    *)
(* only when the page load failed.                                         *)
(***************************************************************************)
C22_ExtractorContainment ==
  pc \in {"load", "return", "returned"} \cup {ExtractorOrder[i] : i \in 1..6} =>
    /\ Len(ran) <= Len(ExtractorOrder)
    /\ \A i \in 1..Len(ran) :
         /\ ran[i].extractor = ExtractorOrder[i]
         /\ \A k \in DOMAIN ran[i].wrote : data[k] = ran[i].wrote[k]
    /\ pc \in {"return", "returned"} /\ returned # "None" =>
         Len(ran) = Len(ExtractorOrder)
    /\ returned = "None" => (ran = <<>> /\ pc = "returned")
    /\ pc = "returned" => returned \in {"data", "None"}
    /\ \A i \in 1..6 : pc = ExtractorOrder[i] => Len(ran) = i - 1

\* The jerseys extractor raised after it set a jersey; the three after it
\* ran, and the data dict is returned.
C22_Witness ==
  /\ pc = "returned"
  /\ returned = "data"
  /\ Len(ran) = 6
  /\ ran[3].raised
  /\ data.jerseys.yellow = BenHealy
  /\ data.combativity = BenHealy
  /\ data.dnf_riders = <<BenHealy>>

(***************************************************************************)
(* C23: after any prefix of the rows of the results table,                 *)
(* top_20_finishers has at most 20 entries, in row order; a row adds an    *)
(* entry only if it has at least 4 cells, a position cell that starts with *)
(* a digit and a non-empty rider link text; a row that is rejected or on   *)
(* which the body fails leaves the list unchanged; the entry of position 1 *)
(* has the time_gap "0:00" and every other entry a time_gap that begins    *)
(* with "+".                                                               *)
(***************************************************************************)
MayAdd(r) ==
  /\ r.cells >= 4
  /\ PyStrip(r.pos_text) # <<>>
  /\ PyStrip(r.pos_text)[1] \in
       {"0", "1", "2", "3", "4", "5", "6", "7", "8", "9", "^2"}
  /\ r.link # None
  /\ PyStrip(r.link) # <<>>

\* The rows that may add, without those on which int(...) has nothing to read.
Adding(r) == MayAdd(r) /\ PyStrip(r.pos_text)[1] # "^2"

C23_TopTwentyRows ==
  pc \in {"results_rows", "results_done"} =>
    LET adding == SelectSeq(seen, Adding)
    IN  /\ Len(top_20_finishers) <= 20
        /\ Len(top_20_finishers) = Min(20, Len(adding))
        /\ \A i \in 1..Len(top_20_finishers) :
             LET e == top_20_finishers[i]
             IN  /\ MayAdd(adding[i])
                 /\ e.rider_name = ReformatRiderName(PyStrip(adding[i].link))
                 /\ e.position[2] >= 0
                 /\ DecStr(e.position[2]) = PyStrip(adding[i].pos_text)
                 /\ e.position = PyInt(1) => e.time_gap = <<"0", ":", "0", "0">>
                 /\ e.position # PyInt(1) => e.time_gap[1] = "+"

\* The list is full after 20 rows, and the 21st row is not added.
C23_Witness ==
  /\ pc = "results_done"
  /\ Len(seen) = 21
  /\ Len(top_20_finishers) = 20
  /\ top_20_finishers[1].time_gap = <<"0", ":", "0", "0">>
  /\ top_20_finishers[20].position = PyInt(20)

(***************************************************************************)
(* C24: token conservation.  For an input of at least two tokens the       *)
(* output of _format_name has as many tokens as the input and its tokens   *)
(* are a cyclic rotation of the input's, up to the case of the letters;    *)
(* the same holds of reformat_rider_name and the tokens of the             *)
(* accent-stripped input, the rotation moving the last token to the front. *)
(* Refuted for reformat_rider_name: when fewer than two tokens are left    *)
(* after the accents are stripped it returns the title-cased input with    *)
(* the tokens that stripping removed (the divergence of C4).               *)
(***************************************************************************)
IsRotation(v, w) == \E k \in 0..Len(w) : SameWords(v, Rotate(w, k))

LastToFront(w) == IF w = <<>> THEN w ELSE Rotate(w, Len(w) - 1)

C24_TokenConservation ==
  /\ (pc = "B" /\ IsStr(name) /\ Len(Words(name)) >= 2) =>
       /\ IsStr(res)
       /\ Len(Words(res)) = Len(Words(name))
       /\ IsRotation(Words(res), Words(name))
  /\ (pc = "A" /\ IsStr(name) /\ Len(Words(name)) >= 2) =>
       /\ IsStr(res)
       /\ Len(Words(res)) = Len(Words(NfkdAscii(name)))
       /\ SameWords(Words(res), LastToFront(Words(NfkdAscii(name))))

(***************************************************************************)
(* C25: on an input of exactly two ASCII tokens, neither a particle, each  *)
(* in title case, _format_name and reformat_rider_name return the same     *)
(* string, the two tokens swapped; on three or more particle-free tokens   *)
(* the two can return different token orders, and do so whenever the       *)
(* tokens are ASCII and differ from one another.                           *)
(***************************************************************************)
PlainTokens(x) ==
  /\ IsStr(x)
  /\ IsAscii(x)
  /\ \A i \in 1..Len(Words(x)) : ~IsParticle(Words(x)[i])

TwoTitleTokens(x) ==
  /\ PlainTokens(x)
  /\ Len(Words(x)) = 2
  /\ \A i \in 1..2 : TitleCased(Words(x)[i])

DistinctTokens(w) ==
  \A i \in 1..Len(w) : \A j \in 1..Len(w) : i # j => ~SameLetters(w[i], w[j])

C25_VariantsAgreeOnTwoTokens ==
  /\ (pc \in {"B", "A"} /\ TwoTitleTokens(name)) =>
       /\ res = PyJoin(<<Words(name)[2], Words(name)[1]>>)
       /\ FormatName(name) = ReformatRiderName(name)
  /\ (pc \in {"B", "A"} /\ PlainTokens(name) /\ Len(Words(name)) >= 3
        /\ DistinctTokens(Words(name))) =>
       /\ res = (IF pc = "B" THEN FormatName(name) ELSE ReformatRiderName(name))
       /\ ~SameWords(Words(FormatName(name)), Words(ReformatRiderName(name)))

C25_Witness ==
  /\ pc = "B"
  /\ name = <<"B", "e", "r", "g", " ", "B", "e", "n">>
  /\ res = <<"B", "e", "n", " ", "B", "e", "r", "g">>
  /\ ReformatRiderName(name) = res

====
